---- MODULE Spec2Model ----
(***************************************************************************)
(* Model of giskard-desktop/src-tauri/src/lib.rs: the supervisor of the    *)
(* Python backend process (start_python_backend, the setup thread of run,  *)
(* the close-event handler of run) and the curl-based API commands.        *)
(*                                                                         *)
(* Threads.  "startup" is the thread spawned in setup (lines 194-220).     *)
(* "main" is the host's event loop: it runs the close-event handler (lines *)
(* 224-234) and the non-async command start_python_backend when the UI     *)
(* invokes it (lines 127-128, registered at line 187), one at a time.      *)
(* The async API commands (lines 10-107) run on the host's async runtime   *)
(* and touch no state of this module.                                      *)
(***************************************************************************)
EXTENDS Integers, Sequences, FiniteSets, TLC

\* ------------------------------------------------------------------ bounds
\* Number of times the UI invokes the start_python_backend command.
MaxUiStarts == 1
\* Number of CloseRequested window events delivered before the host exits.
MaxCloses == 2
\* Longest response body (in bytes) the backend answers with.
MaxBody == 2
\* Longest title and status argument (in characters).
MaxText == 2
\* Longest description and project argument (in characters).
MaxShort == 1
\* Longest categories argument (in characters).
MaxCats == 3

\* ------------------------------------------------------- program constants
\* `for i in 1..=10` (line 204) and `if i == 10` (line 212).
MAX_ATTEMPTS == 10
\* exe_path.parent() followed by three more .parent() (lines 135-138).
PARENT_LEVELS == 4

\* Option::None of BACKEND_PROCESS (line 6) and of a caller's child.
NoChild == 0
\* `let mut backend_path = None` (line 151).
NoPath == "None"

Callers == {"startup", "main"}

\* ------------------------------------------------------------- environment
\* The candidate paths of lines 144-149, as the files they name.
\* "up4" is parent_dir, "up5" is parent_dir.parent().
P_up4 == "up4/app.py"
P_up5 == "up5/app.py"
P_rel1 == "../app.py"
P_rel2 == "../../app.py"
AllPaths == {P_up4, P_up5, P_rel1, P_rel2}

\* An executable location: whether current_exe() succeeds, and how many
\* times .parent() can be applied to the path before it returns None.
AllExes == [ok : BOOLEAN, parents : (PARENT_LEVELS - 1)..(PARENT_LEVELS + 1)]
\* Every filesystem, as the set of candidate files that exist.
AllFs == SUBSET AllPaths

\* The installations the lifecycle specification starts from: a tree with
\* app.py in parent_dir and a tree with no app.py at all.
MainExes == {[ok |-> TRUE, parents |-> PARENT_LEVELS + 1]}
MainFs == {{P_up4}, {}}

VARIABLES
  exe,          \* the executable's location (environment, fixed for a run)
  fs,           \* the candidate files that exist (environment, fixed for a run)
  handle,       \* BACKEND_PROCESS: NoChild or the stored child
  lock,         \* holder of the BACKEND_PROCESS mutex: "free" or a thread
  spawned,      \* number of children spawned so far; children are 1..spawned
  signals,      \* the children sent kill(), in order
  killResult,   \* result of the last child.kill(): "none", "ok", "err"
  pc,           \* position of each thread
  backend_path, \* per caller: the path found by the loop of lines 151-157
  child,        \* per caller: the child returned by spawn() at line 170
  result,       \* per caller: result of its last start_python_backend call
  i,            \* loop variable of the probe loop (line 204)
  waits,        \* number of 1000 ms sleeps done by the probe loop (line 205)
  probeLog,     \* results of check_backend_status in the probe loop, in order
  outcome,      \* what the setup thread logged last (lines 199-216)
  uiStarts,     \* UI invocations of start_python_backend so far
  closes,       \* close events handled so far
  hostExited,   \* the host process has exited
  gw            \* the last API command call: its inputs and its result

vars == <<exe, fs, handle, lock, spawned, signals, killResult, pc,
          backend_path, child, result, i, waits, probeLog, outcome,
          uiStarts, closes, hostExited, gw>>

envVars == <<exe, fs>>
procVars == <<handle, lock, spawned, signals, killResult>>
callVars == <<backend_path, child, result>>
probeVars == <<i, waits, probeLog, outcome>>
hostVars == <<uiStarts, closes, hostExited>>

\* ------------------------------------------------------------ path resolver
\* possible_paths (lines 144-149): parent_dir.parent().unwrap_or(parent_dir)
\* is parent_dir itself when parent_dir has no parent.
possible_paths(parents) ==
  << P_up4,
     IF parents > PARENT_LEVELS THEN P_up5 ELSE P_up4,
     P_rel1,
     P_rel2 >>

\* The loop of lines 151-157 from index k on: the first path that exists.
RECURSIVE FirstExistingFrom(_, _, _)
FirstExistingFrom(paths, files, k) ==
  IF k > Len(paths) THEN NoPath
  ELSE IF paths[k] \in files THEN paths[k]
  ELSE FirstExistingFrom(paths, files, k + 1)

\* The candidate loop without its break: the last existing path wins.
RECURSIVE LastExistingFrom(_, _, _)
LastExistingFrom(paths, files, k) ==
  IF k < 1 THEN NoPath
  ELSE IF paths[k] \in files THEN paths[k]
  ELSE LastExistingFrom(paths, files, k - 1)

FirstExisting_NoBreak(paths, files) == LastExistingFrom(paths, files, Len(paths))

FirstExisting(paths, files) == FirstExistingFrom(paths, files, 1)

\* Lines 132-159: the path start_python_backend resolves, or its error.
ResolveBackend(e, files) ==
  IF ~e.ok THEN [err |-> "ErrExe", path |-> NoPath]
  ELSE IF e.parents < PARENT_LEVELS THEN [err |-> "ErrParent", path |-> NoPath]
  ELSE LET p == FirstExisting(possible_paths(e.parents), files)
       IN IF p = NoPath THEN [err |-> "ErrNotFound", path |-> NoPath]
          ELSE [err |-> "none", path |-> p]

\* ------------------------------------------------------------------ Init
\* No API command has been called yet.
NoCall ==
  [op |-> "none",
   args |-> [title |-> <<>>, description |-> <<>>,
             project |-> [some |-> FALSE, val |-> <<>>],
             categories |-> [some |-> FALSE, val |-> <<>>],
             task_id |-> 0, status |-> <<>>],
   req |-> [method |-> "none", url |-> <<>>, headers |-> <<>>,
            data |-> [some |-> FALSE, val |-> <<>>], silent |-> FALSE, fail |-> FALSE],
   resp |-> [kind |-> "none", status |-> 0, body |-> <<>>],
   res |-> [ok |-> FALSE, msg |-> "", text |-> <<>>]]

InitEnv(exes, fss) ==
  /\ exe \in exes
  /\ fs \in fss
  /\ handle = NoChild
  /\ lock = "free"
  /\ spawned = 0
  /\ signals = <<>>
  /\ killResult = "none"
  /\ pc = [c \in Callers |-> IF c = "startup" THEN "delay" ELSE "idle"]
  /\ backend_path = [c \in Callers |-> NoPath]
  /\ child = [c \in Callers |-> NoChild]
  /\ result = [c \in Callers |-> "none"]
  /\ i = 1
  /\ waits = 0
  /\ probeLog = <<>>
  /\ outcome = "none"
  /\ uiStarts = 0
  /\ closes = 0
  /\ hostExited = FALSE
  /\ gw = NoCall

Init == InitEnv(MainExes, MainFs)

\* ------------------------------------------------- start_python_backend
\* Where a caller continues when start_python_backend returns: the setup
\* thread enters the probe loop whatever the result (lines 198-204); the
\* event loop goes back to waiting for events.
AfterStart(c) == IF c = "startup" THEN "sleep" ELSE "idle"

\* Lines 132-159: current_exe, the parent chain, the candidate loop.
StartResolve(c) ==
  /\ ~hostExited
  /\ pc[c] = "resolve"
  /\ LET r == ResolveBackend(exe, fs)
     IN IF r.err = "none"
        THEN /\ backend_path' = [backend_path EXCEPT ![c] = r.path]
             /\ pc' = [pc EXCEPT ![c] = "spawn"]
             /\ UNCHANGED result
        ELSE /\ result' = [result EXCEPT ![c] = r.err]
             /\ pc' = [pc EXCEPT ![c] = AfterStart(c)]
             /\ UNCHANGED backend_path
  /\ UNCHANGED <<envVars, procVars, child, probeVars, hostVars, gw>>

\* Lines 164-171: Command::new("python3")...spawn(), which may fail.
StartSpawn(c) ==
  /\ ~hostExited
  /\ pc[c] = "spawn"
  /\ \E started \in BOOLEAN :
       IF started
       THEN /\ spawned' = spawned + 1
            /\ child' = [child EXCEPT ![c] = spawned + 1]
            /\ pc' = [pc EXCEPT ![c] = "lock"]
            /\ UNCHANGED result
       ELSE /\ result' = [result EXCEPT ![c] = "ErrSpawn"]
            /\ pc' = [pc EXCEPT ![c] = AfterStart(c)]
            /\ UNCHANGED <<spawned, child>>
  /\ UNCHANGED <<envVars, handle, lock, signals, killResult, backend_path,
                 probeVars, hostVars, gw>>

\* Line 174, BACKEND_PROCESS.lock().unwrap(): blocks until the mutex is free.
StartLock(c) ==
  /\ ~hostExited
  /\ pc[c] = "lock"
  /\ lock = "free"
  /\ lock' = c
  /\ pc' = [pc EXCEPT ![c] = "store"]
  /\ UNCHANGED <<envVars, handle, spawned, signals, killResult, callVars,
                 probeVars, hostVars, gw>>

\* A start that spawns the child and stores nothing.
StoredValue_None(c) == NoChild

\* What line 174 assigns to the slot.
StoredValue(c) == child[c]

\* A guard that is never dropped: the mutex stays with its holder.
Released_Held == lock

\* The mutex once the MutexGuard is dropped: at the end of the statement of
\* line 174, and at the end of the if-let block of lines 227-232.
Released == "free"

\* Lines 174-177: the assignment through the guard (the value it replaces is
\* dropped, which sends no signal), the guard's release at the end of the
\* statement, and the Ok return.
StartStore(c) ==
  /\ ~hostExited
  /\ pc[c] = "store"
  /\ lock = c
  /\ handle' = StoredValue(c)
  /\ lock' = Released
  /\ result' = [result EXCEPT ![c] = "Ok"]
  /\ pc' = [pc EXCEPT ![c] = AfterStart(c)]
  /\ UNCHANGED <<envVars, spawned, signals, killResult, backend_path, child,
                 probeVars, hostVars, gw>>

\* ------------------------------------------------------------ setup thread
\* Line 196: the 500 ms sleep, then the call of line 198.
StartupDelay ==
  /\ ~hostExited
  /\ pc["startup"] = "delay"
  /\ pc' = [pc EXCEPT !["startup"] = "resolve"]
  /\ UNCHANGED <<envVars, procVars, callVars, probeVars, hostVars, gw>>

\* ------------------------------------------------------- request bodies
\* Text is a sequence of one-character strings.
Q == "\""
B == "\\"
None == [some |-> FALSE, val |-> <<>>]
Some(v) == [some |-> TRUE, val |-> v]
Opts(S) == {None} \cup {Some(v) : v \in S}
StrsUpTo(n, alphabet) == UNION {[1..k -> alphabet] : k \in 0..n}

\* s.replace("\"", "\\\"") (lines 37, 38, 41, 83): a backslash is put before
\* every quote; every other character, the backslash included, is copied.
RECURSIVE replace_quotes(_)
replace_quotes(s) ==
  IF s = <<>> THEN <<>>
  ELSE (IF Head(s) = Q THEN <<B, Q>> ELSE <<Head(s)>>) \o replace_quotes(Tail(s))

\* cats.split(',') (line 46): cur is the piece being read.
RECURSIVE split_comma(_, _)
split_comma(s, cur) ==
  IF s = <<>> THEN <<cur>>
  ELSE IF Head(s) = "," THEN <<cur>> \o split_comma(Tail(s), <<>>)
  ELSE split_comma(Tail(s), Append(cur, Head(s)))

\* str::trim (line 46) over the whitespace of the model, the space.
RECURSIVE trim_start(_)
trim_start(s) ==
  IF s # <<>> /\ Head(s) = " " THEN trim_start(Tail(s)) ELSE s

RECURSIVE trim_end(_)
trim_end(s) ==
  IF s # <<>> /\ s[Len(s)] = " " THEN trim_end(SubSeq(s, 1, Len(s) - 1)) ELSE s

trim(s) == trim_end(trim_start(s))

\* The pieces as they are split, untrimmed.
categories_array_NoTrim(cats) == split_comma(cats, <<>>)

\* categories_array (line 46): the pieces, each trimmed, in order.
categories_array(cats) ==
  LET pieces == split_comma(cats, <<>>)
  IN [k \in 1..Len(pieces) |-> trim(pieces[k])]

\* serde_json's string escaping over the characters of the model: quote and
\* backslash get a backslash before them.
RECURSIVE serde_escape(_)
serde_escape(s) ==
  IF s = <<>> THEN <<>>
  ELSE (IF Head(s) \in {Q, B} THEN <<B, Head(s)>> ELSE <<Head(s)>>)
       \o serde_escape(Tail(s))

\* serde_json::to_string of a Vec<&str> (line 47) from element k on: compact,
\* elements quoted and separated by a comma. It cannot fail on strings, so
\* the unwrap_or_else fallback is never taken.
RECURSIVE serde_elements(_, _)
serde_elements(v, k) ==
  IF k > Len(v) THEN <<>>
  ELSE (IF k > 1 THEN <<",">> ELSE <<>>)
       \o <<Q>> \o serde_escape(v[k]) \o <<Q>>
       \o serde_elements(v, k + 1)

serde_to_string(v) == <<"[">> \o serde_elements(v, 1) \o <<"]">>

\* The key words of the format strings.
K_title == <<"t", "i", "t", "l", "e">>
K_description == <<"d", "e", "s", "c", "r", "i", "p", "t", "i", "o", "n">>
K_project == <<"p", "r", "o", "j", "e", "c", "t">>
K_categories == <<"c", "a", "t", "e", "g", "o", "r", "i", "e", "s">>
K_status == <<"s", "t", "a", "t", "u", "s">>

\* What line 41 pushes for a project.
project_part(proj) ==
  <<",", " ", Q>> \o K_project \o <<Q, ":", " ", Q>> \o replace_quotes(proj) \o <<Q>>

\* What lines 44-51 push for the categories.
categories_part(cats) ==
  <<",", " ", Q>> \o K_categories \o <<Q, ":", " ">>
  \o (IF cats.some THEN serde_to_string(categories_array(cats.val))
      ELSE <<"[", "]">>)

\* json_body of api_create_task (lines 36-53).
create_body(a) ==
  <<"{", Q>> \o K_title \o <<Q, ":", " ", Q>> \o replace_quotes(a.title)
  \o <<Q, ",", " ", Q>> \o K_description \o <<Q, ":", " ", Q>>
  \o replace_quotes(a.description) \o <<Q>>
  \o (IF a.project.some THEN project_part(a.project.val) ELSE <<>>)
  \o categories_part(a.categories)
  \o <<"}">>

\* json_body of api_update_task_status (line 83).
status_body(a) ==
  <<"{", Q>> \o K_status \o <<Q, ":", " ", Q>> \o replace_quotes(a.status) \o <<Q, "}">>

\* format!("{}", task_id) of a u32 (line 88): its decimal digits.
Digit(d) == <<"0", "1", "2", "3", "4", "5", "6", "7", "8", "9">>[d + 1]

\* A formatter that keeps the last digit only.
Decimal_LastDigit(n) == <<Digit(n % 10)>>

RECURSIVE Decimal(_)
Decimal(n) ==
  IF n < 10 THEN <<Digit(n)>> ELSE Append(Decimal(n \div 10), Digit(n % 10))

BaseUrl == "http://localhost:5001"
ContentType == "Content-Type: application/json"

\* The curl invocation of each command: api_get_tasks (line 15),
\* api_create_task (lines 56-62), api_update_task_status (lines 86-92),
\* check_backend_status (line 113). Without -X curl sends a GET.
CurlRequest(op, a) ==
  CASE op = "api_get_tasks" ->
         [method |-> "GET", url |-> <<BaseUrl, "/api/tasks">>, headers |-> <<>>,
          data |-> None, silent |-> TRUE, fail |-> FALSE]
    [] op = "api_create_task" ->
         [method |-> "POST", url |-> <<BaseUrl, "/api/tasks">>,
          headers |-> <<ContentType>>,
          data |-> Some(create_body(a)), silent |-> TRUE, fail |-> FALSE]
    [] op = "api_update_task_status" ->
         [method |-> "PATCH",
          url |-> <<BaseUrl, "/api/tasks/">> \o Decimal(a.task_id) \o <<"/status">>,
          headers |-> <<ContentType>>,
          data |-> Some(status_body(a)), silent |-> TRUE, fail |-> FALSE]
    [] op = "check_backend_status" ->
         [method |-> "GET", url |-> <<BaseUrl, "/api/tasks">>, headers |-> <<>>,
          data |-> None, silent |-> TRUE, fail |-> TRUE]

\* The arguments of a command call; a command reads only its own.
Args(t, d, p, c, id, st) ==
  [title |-> t, description |-> d, project |-> p, categories |-> c,
   task_id |-> id, status |-> st]
NoArgs == Args(<<>>, <<>>, None, None, 0, <<>>)
CreateOf(t, d, p, c) == Args(t, d, p, c, 0, <<>>)
UpdateOf(id, st) == Args(<<>>, <<>>, None, None, id, st)

TextChars == {"a", Q, B}
CatChars == {"w", ",", " "}
TaskIds == {0, 7, 10, 305}

\* The calls of the examples of the specification's section 8.
BuyMilk == CreateOf(<<"B", "u", "y", " ", "m", "i", "l", "k">>, <<"2", "%">>, None, None)
QuotedTitle == CreateOf(<<"A", " ", Q, "B", Q>>, <<"x">>, None, None)
WorkUrgent ==
  CreateOf(<<"t">>, <<"d">>, Some(<<"p">>),
           Some(<<"w", "o", "r", "k", ",", " ", "u", "r", "g", "e", "n", "t">>))
QuotedCategory == CreateOf(<<"t">>, <<"d">>, None, Some(<<"a", Q, B, ",", ",", " ">>))
Done7 == UpdateOf(7, <<"d", "o", "n", "e">>)

CreateArgs ==
  {CreateOf(t, d, p, None) :
     t \in StrsUpTo(MaxText, TextChars), d \in StrsUpTo(MaxShort, TextChars),
     p \in Opts(StrsUpTo(MaxShort, TextChars))}
  \cup {CreateOf(<<"a">>, <<>>, None, c) : c \in Opts(StrsUpTo(MaxCats, CatChars))}
  \cup {BuyMilk, QuotedTitle, WorkUrgent, QuotedCategory}

UpdateArgs ==
  {UpdateOf(id, st) : id \in TaskIds, st \in StrsUpTo(MaxText, TextChars)}
  \cup {Done7}

\* Every call of a command, over the bounded arguments.
ArgsOf(op) ==
  CASE op = "api_create_task" -> CreateArgs
    [] op = "api_update_task_status" -> UpdateArgs
    [] OTHER -> {NoArgs}

\* The one call of each command the lifecycle specification makes.
MainArgs(op) ==
  CASE op = "api_create_task" -> BuyMilk
    [] op = "api_update_task_status" -> Done7
    [] OTHER -> NoArgs

\* ---------------------------------------------------------------- curl
\* What a curl invocation meets: curl itself cannot be launched
\* (Command::output returns Err), the connection fails, or the backend
\* answers with an HTTP status and a body.
Bytes == {97, 255}
Statuses == {200, 302, 404, 500}
BodiesUpTo(n) == UNION {[1..k -> Bytes] : k \in 0..n}
NoCurl == [kind |-> "nocurl", status |-> 0, body |-> <<>>]
Refused == [kind |-> "refused", status |-> 0, body |-> <<>>]
Http(st, b) == [kind |-> "http", status |-> st, body |-> b]
Responses == {NoCurl, Refused} \cup {Http(st, b) : st \in Statuses, b \in BodiesUpTo(MaxBody)}
\* The answers the lifecycle specification draws API calls and probes from.
MainResponses == {Refused, Http(200, <<97>>)}

\* The -f flag of an invocation: only check_backend_status passes it
\* (line 113); the API commands pass -s alone (lines 15, 56-62, 86-92).
FailFlag(op) == CurlRequest(op, NoArgs).fail

\* curl -s [-f]: the process output of Command::output. With -f an HTTP
\* status of 400 or more makes curl exit 22 and print no body; without it
\* curl exits 0 and prints the body whatever the status. -s silences the
\* error text, so stderr is empty.
Curl(fail, resp) ==
  IF resp.kind = "nocurl"
    THEN [launched |-> FALSE, exit |-> 0, stdout |-> <<>>, stderr |-> <<>>]
  ELSE IF resp.kind = "refused"
    THEN [launched |-> TRUE, exit |-> 7, stdout |-> <<>>, stderr |-> <<>>]
  ELSE IF fail /\ resp.status >= 400
    THEN [launched |-> TRUE, exit |-> 22, stdout |-> <<>>, stderr |-> <<>>]
  ELSE [launched |-> TRUE, exit |-> 0, stdout |-> resp.body, stderr |-> <<>>]

\* String::from_utf8_lossy over the bytes of the model: an ASCII byte is its
\* character, the byte 0xFF (never valid in UTF-8) becomes U+FFFD.
from_utf8_lossy(bytes) ==
  [k \in 1..Len(bytes) |-> IF bytes[k] < 128 THEN bytes[k] ELSE 65533]

\* A match that takes every launched curl as a success.
StatusSuccess_Launched(out) == out.launched

\* output.status.success() (lines 19, 66, 96, 117): curl's exit code is 0.
StatusSuccess(out) == out.exit = 0

\* check_backend_status (lines 109-125).
check_backend_status(resp) ==
  LET out == Curl(FailFlag("check_backend_status"), resp)
  IN IF ~out.launched
       THEN [ok |-> FALSE, msg |-> "Could not check backend status", text |-> <<>>]
     ELSE IF StatusSuccess(out)
       THEN [ok |-> TRUE, msg |-> "Backend is running", text |-> <<>>]
     ELSE [ok |-> FALSE, msg |-> "Backend not responding", text |-> <<>>]

ApiOps == {"api_get_tasks", "api_create_task", "api_update_task_status"}
Ops == ApiOps \cup {"check_backend_status"}

\* An error string that is curl's stderr alone.
FailedPrefix_Empty(op) == ""

\* The prefixes of the two error strings of each API command.
FailedPrefix(op) ==
  CASE op = "api_get_tasks" -> "API request failed: "
    [] op = "api_create_task" -> "Create task failed: "
    [] op = "api_update_task_status" -> "Update task status failed: "

LaunchPrefix(op) ==
  CASE op = "api_get_tasks" -> "Failed to call API: "
    [] op = "api_create_task" -> "Failed to create task: "
    [] op = "api_update_task_status" -> "Failed to update task status: "

\* The match on Command::output of api_get_tasks (lines 14-29),
\* api_create_task (lines 55-76) and api_update_task_status (lines 85-106).
\* ok: Ok or Err; text: the Ok payload, or the text formatted after msg.
ApiResult(op, resp) ==
  LET out == Curl(FailFlag(op), resp)
  IN IF ~out.launched
       THEN [ok |-> FALSE, msg |-> LaunchPrefix(op), text |-> <<>>]
     ELSE IF StatusSuccess(out)
       THEN [ok |-> TRUE, msg |-> "", text |-> from_utf8_lossy(out.stdout)]
     ELSE [ok |-> FALSE, msg |-> FailedPrefix(op), text |-> from_utf8_lossy(out.stderr)]

Command(op, resp) ==
  IF op = "check_backend_status" THEN check_backend_status(resp)
  ELSE ApiResult(op, resp)

\* The UI invokes one of the curl commands; the backend answers resp.
CommandCall(op, a, resp) ==
  /\ ~hostExited
  /\ gw' = [op |-> op, args |-> a, req |-> CurlRequest(op, a), resp |-> resp,
            res |-> Command(op, resp)]
  /\ UNCHANGED <<envVars, procVars, pc, callVars, probeVars, hostVars>>

\* -------------------------------------------------------------- probe loop
\* Line 205: the 1000 ms sleep at the head of each iteration.
ProbeSleep ==
  /\ ~hostExited
  /\ pc["startup"] = "sleep"
  /\ waits' = waits + 1
  /\ pc' = [pc EXCEPT !["startup"] = "probe"]
  /\ UNCHANGED <<envVars, procVars, callVars, i, probeLog, outcome, hostVars, gw>>

\* The loop one iteration short.
LoopStep_OneShort(ok, n) ==
  IF ok THEN "Ready"
  ELSE IF n = MAX_ATTEMPTS - 1 THEN "ProbeExhausted"
  ELSE "retry"

\* The loop without the break of line 209: Ok is only acted on at the end.
LoopStep_NoBreak(ok, n) ==
  IF n = MAX_ATTEMPTS THEN (IF ok THEN "Ready" ELSE "ProbeExhausted")
  ELSE "retry"

\* Lines 206-218, the match on the result of probe n: Ok breaks out of the
\* loop, Err at the last iteration ends it, any other Err goes round again.
LoopStep(ok, n) ==
  IF ok THEN "Ready"
  ELSE IF n = MAX_ATTEMPTS THEN "ProbeExhausted"
  ELSE "retry"

\* A probe loop that gives up on the backend: when it runs out it stops
\* the stored child.
Probe_StopsBackend(resp) ==
  /\ ~hostExited
  /\ pc["startup"] = "probe"
  /\ LET r == check_backend_status(resp)
         step == LoopStep(r.ok, i)
     IN /\ probeLog' = Append(probeLog, IF r.ok THEN "Ok" ELSE "Err")
        /\ IF step = "retry"
           THEN /\ i' = i + 1
                /\ pc' = [pc EXCEPT !["startup"] = "sleep"]
                /\ UNCHANGED <<outcome, handle, signals>>
           ELSE /\ outcome' = step
                /\ pc' = [pc EXCEPT !["startup"] = "done"]
                /\ handle' = IF step = "ProbeExhausted" THEN NoChild ELSE handle
                /\ signals' = IF step = "ProbeExhausted" /\ handle # NoChild
                              THEN Append(signals, handle) ELSE signals
                /\ UNCHANGED i
  /\ UNCHANGED <<envVars, lock, spawned, killResult, callVars, waits, hostVars, gw>>

\* Lines 206-218: one check_backend_status and the match on its result.
Probe(resp) ==
  /\ ~hostExited
  /\ pc["startup"] = "probe"
  /\ LET r == check_backend_status(resp)
         step == LoopStep(r.ok, i)
     IN /\ probeLog' = Append(probeLog, IF r.ok THEN "Ok" ELSE "Err")
        /\ IF step = "retry"
           THEN /\ i' = i + 1
                /\ pc' = [pc EXCEPT !["startup"] = "sleep"]
                /\ UNCHANGED outcome
           ELSE /\ outcome' = step
                /\ pc' = [pc EXCEPT !["startup"] = "done"]
                /\ UNCHANGED i
  /\ UNCHANGED <<envVars, procVars, callVars, waits, hostVars, gw>>

\* ------------------------------------------------------------- event loop
\* The UI invokes the start_python_backend command (line 187).
UiStart ==
  /\ ~hostExited
  /\ pc["main"] = "idle"
  /\ uiStarts < MaxUiStarts
  /\ uiStarts' = uiStarts + 1
  /\ pc' = [pc EXCEPT !["main"] = "resolve"]
  /\ backend_path' = [backend_path EXCEPT !["main"] = NoPath]
  /\ child' = [child EXCEPT !["main"] = NoChild]
  /\ result' = [result EXCEPT !["main"] = "none"]
  /\ UNCHANGED <<envVars, procVars, probeVars, closes, hostExited, gw>>

\* Line 225: a CloseRequested window event reaches the handler.
CloseRequested ==
  /\ ~hostExited
  /\ pc["main"] = "idle"
  /\ closes < MaxCloses
  /\ pc' = [pc EXCEPT !["main"] = "closeLock"]
  /\ UNCHANGED <<envVars, procVars, callVars, probeVars, hostVars, gw>>

\* Line 227, BACKEND_PROCESS.lock(): blocks until the mutex is free. No
\* thread panics while holding the mutex, so it is never poisoned and the
\* result is always Ok.
CloseLock ==
  /\ ~hostExited
  /\ pc["main"] = "closeLock"
  /\ lock = "free"
  /\ lock' = "main"
  /\ pc' = [pc EXCEPT !["main"] = "take"]
  /\ UNCHANGED <<envVars, handle, spawned, signals, killResult, callVars,
                 probeVars, hostVars, gw>>

\* A handler that reads the slot without taking: the handle stays.
AfterTake_Keeps == handle

\* What process.take() (line 228) leaves in the slot.
AfterTake == NoChild

\* Lines 228-232: take the handle; if there was one, kill the child and
\* ignore the result; release the mutex at the end of the block.
CloseTake ==
  /\ ~hostExited
  /\ pc["main"] = "take"
  /\ lock = "main"
  /\ IF handle # NoChild
     THEN /\ signals' = Append(signals, handle)
          /\ \E r \in {"ok", "err"} : killResult' = r
     ELSE UNCHANGED <<signals, killResult>>
  /\ handle' = AfterTake
  /\ lock' = Released
  /\ closes' = closes + 1
  /\ pc' = [pc EXCEPT !["main"] = "idle"]
  /\ UNCHANGED <<envVars, spawned, callVars, probeVars, uiStarts, hostExited, gw>>

\* After a close event has been handled the window closes and run (line
\* 235) returns: the host process exits and every thread of it stops.
HostExit ==
  /\ ~hostExited
  /\ pc["main"] = "idle"
  /\ closes >= 1
  /\ hostExited' = TRUE
  /\ UNCHANGED <<envVars, procVars, pc, callVars, probeVars, uiStarts, closes, gw>>

\* ------------------------------------------------------------------- Next
Next ==
  \/ StartupDelay
  \/ \E c \in Callers : StartResolve(c)
  \/ \E c \in Callers : StartSpawn(c)
  \/ \E c \in Callers : StartLock(c)
  \/ \E c \in Callers : StartStore(c)
  \/ ProbeSleep
  \/ \E resp \in MainResponses : Probe(resp)
  \/ UiStart
  \/ CloseRequested
  \/ CloseLock
  \/ CloseTake
  \/ HostExit
  \/ \E op \in Ops, resp \in MainResponses : CommandCall(op, MainArgs(op), resp)

Spec == Init /\ [][Next]_vars

\* The steps of the setup thread and of a handler running on the event
\* loop. The operating system keeps scheduling a thread that can run, so
\* each is weakly fair; the arrival of UI calls and close events and the
\* exit of the host are not.
StartupStep ==
  \/ StartupDelay
  \/ StartResolve("startup")
  \/ StartSpawn("startup")
  \/ StartLock("startup")
  \/ StartStore("startup")
  \/ ProbeSleep
  \/ \E resp \in MainResponses : Probe(resp)

HandlerStep ==
  \/ StartResolve("main")
  \/ StartSpawn("main")
  \/ StartLock("main")
  \/ StartStore("main")
  \/ CloseLock
  \/ CloseTake

SpecLive == Init /\ [][Next]_vars /\ WF_vars(StartupStep) /\ WF_vars(HandlerStep)

\* The path resolver over every installation: both callers of
\* start_python_backend, from every executable location and filesystem.
InitResolve == InitEnv(AllExes, AllFs)

NextResolve ==
  \/ StartupDelay
  \/ UiStart
  \/ \E c \in Callers : StartResolve(c)
  \/ \E c \in Callers : StartSpawn(c)
  \/ \E c \in Callers : StartLock(c)
  \/ \E c \in Callers : StartStore(c)

SpecResolve == InitResolve /\ [][NextResolve]_vars

\* The curl commands over every answer of the backend.
NextGateway == \E op \in Ops, resp \in Responses : CommandCall(op, MainArgs(op), resp)

SpecGateway == Init /\ [][NextGateway]_vars

\* The requests of the API commands over every bounded argument value. The
\* commands keep no state, so one call of each is every call.
NextRequest ==
  /\ gw.op = "none"
  /\ \E op \in ApiOps : \E a \in ArgsOf(op), resp \in MainResponses : CommandCall(op, a, resp)

SpecRequest == Init /\ [][NextRequest]_vars

\* ------------------------------------------------------------ vocabulary
\* Child p has been sent the stop signal.
Signalled(p) == \E k \in 1..Len(signals) : signals[k] = p
\* The children spawned and not yet sent the stop signal.
Live == {p \in 1..spawned : ~Signalled(p)}
\* The errors start_python_backend returns.
StartErrors == {"ErrExe", "ErrParent", "ErrNotFound", "ErrSpawn"}
\* The positions inside start_python_backend.
StartPcs == {"resolve", "spawn", "lock", "store"}
\* Caller c's start_python_backend returns in this step.
Returns(c) == pc[c] \in StartPcs /\ pc'[c] = AfterStart(c)
\* The close-event handler finishes in this step.
Terminates == pc["main"] = "take" /\ pc'["main"] = "idle"
\* No probe of the loop was answered as healthy.
NeverHealthy == \A k \in 1..Len(probeLog) : probeLog[k] = "Err"

\* ------------------------------------------------------------------ C1
\* C1: in every reachable state at most one backend process has been
\* spawned and not yet sent the stop signal.
C1_AtMostOneLiveBackend == Cardinality(Live) <= 1

\* ------------------------------------------------------------------ C2
\* C2: once the close-event handler has run and the host has exited, every
\* backend process spawned during the run has been sent the stop signal.
C2_NoBackendOutlivesHost == hostExited => Live = {}

\* ------------------------------------------------------------------ C3
\* C3: terminate leaves the slot empty; a handle that was present is the one
\* process signalled, whatever kill() returns; with no handle present (as
\* right after another terminate) it sends no signal and changes nothing
\* but the handler's own progress.
C3_TerminateIdempotent ==
  [][Terminates =>
       /\ handle' = NoChild
       /\ lock' = "free"
       /\ handle # NoChild =>
            /\ signals' = Append(signals, handle)
            /\ killResult' \in {"ok", "err"}
       /\ handle = NoChild =>
            UNCHANGED <<signals, killResult, spawned, handle, callVars,
                        probeVars, envVars, gw>>]_vars

\* Two close events handled, the second with nothing to stop, and the one
\* kill() that was sent returned an error.
C3_Witness ==
  /\ closes = 2
  /\ pc["main"] = "idle"
  /\ signals = <<1>>
  /\ killResult = "err"
  /\ handle = NoChild

\* ------------------------------------------------------------------ C4
\* C4: when the setup thread's start_python_backend fails, the thread makes
\* no health probe.
C4_NoProbeAfterFailedStart ==
  result["startup"] \in StartErrors => (probeLog = <<>> /\ waits = 0)

\* ------------------------------------------------------------------ C5
\* C5: every probe is preceded by its wait, there are never more than
\* MAX_ATTEMPTS probes, and a loop that ended without a healthy answer made
\* exactly MAX_ATTEMPTS probes and is in ProbeExhausted.
C5_ExhaustedAfterMaxAttempts ==
  /\ waits = Len(probeLog) + (IF pc["startup"] = "probe" THEN 1 ELSE 0)
  /\ Len(probeLog) <= MAX_ATTEMPTS
  /\ (pc["startup"] = "done" /\ NeverHealthy) =>
        /\ Len(probeLog) = MAX_ATTEMPTS
        /\ outcome = "ProbeExhausted"
  /\ outcome = "ProbeExhausted" =>
        /\ pc["startup"] = "done"
        /\ NeverHealthy
        /\ Len(probeLog) = MAX_ATTEMPTS

C5_Witness ==
  /\ outcome = "ProbeExhausted"
  /\ Len(probeLog) = MAX_ATTEMPTS
  /\ waits = MAX_ATTEMPTS

\* ------------------------------------------------------------------ C6
\* C6: only the last probe made can have been answered as healthy (no probe
\* follows a healthy answer), and a healthy answer to probe K puts the
\* thread in Ready with exactly K probes made.
C6_ReadyAfterFirstHealthy ==
  /\ \A k \in 1..(Len(probeLog) - 1) : probeLog[k] = "Err"
  /\ ~NeverHealthy => (outcome = "Ready" /\ pc["startup"] = "done")
  /\ outcome = "Ready" =>
        /\ probeLog # <<>>
        /\ probeLog[Len(probeLog)] = "Ok"
        /\ Len(probeLog) = i

\* Ready on the last attempt: K = MAX_ATTEMPTS.
C6_Witness ==
  /\ outcome = "Ready"
  /\ Len(probeLog) = MAX_ATTEMPTS
  /\ probeLog[MAX_ATTEMPTS] = "Ok"

\* ------------------------------------------------------------------ C7
\* An HTTP status of the 2xx class.
HttpSuccess(resp) == resp.kind = "http" /\ resp.status >= 200 /\ resp.status < 300
\* A body that is ASCII text, which decoding leaves as it is.
Ascii(b) == \A k \in 1..Len(b) : b[k] < 128

\* C7: an API command returns Ok with the body as sent when the backend
\* answers with a successful HTTP status, and an error when it answers with
\* a non-successful status or the transport fails.
C7_NonSuccessIsError ==
  gw.op \in ApiOps =>
    /\ HttpSuccess(gw.resp) =>
         (gw.res.ok /\ (Ascii(gw.resp.body) => gw.res.text = gw.resp.body))
    /\ ~HttpSuccess(gw.resp) => ~gw.res.ok

\* ------------------------------------------------------------------ C8
\* C8: a start_python_backend that returns Ok has stored its own, spawned
\* child in the slot, whatever the probes have said; one that returns an
\* error leaves the slot as it was.
C8_StartStoresOrLeaves ==
  [][\A c \in Callers :
       Returns(c) =>
         /\ result'[c] \in StartErrors \cup {"Ok"}
         /\ result'[c] = "Ok" =>
              /\ handle' # NoChild
              /\ handle' = child[c]
              /\ child[c] \in 1..spawned
         /\ result'[c] \in StartErrors =>
              /\ handle' = handle
              /\ spawned' = spawned]_vars

\* The setup thread's start succeeded before any probe, and a later start
\* from the UI failed to spawn and left the stored handle in place.
C8_Witness ==
  /\ result["startup"] = "Ok"
  /\ result["main"] = "ErrSpawn"
  /\ handle = child["startup"]
  /\ handle # NoChild
  /\ probeLog = <<>>

\* ------------------------------------------------------------------ C9
\* C9: a stored handle is a child spawned in this run that has not been
\* sent the stop signal, and the slot is empty while nothing was spawned.
C9_HandleIsLiveChild ==
  /\ handle # NoChild => (handle \in 1..spawned /\ ~Signalled(handle))
  /\ spawned = 0 => handle = NoChild

\* A handle stored after an earlier child was stopped.
C9_Witness ==
  /\ handle = 2
  /\ signals = <<1>>

\* ------------------------------------------------------------------ C10
\* Caller c's call has run the candidate loop.
Resolved(c) == result[c] # "none" \/ pc[c] \in {"spawn", "lock", "store"}
\* The candidate list of the installation can be built.
Resolvable == exe.ok /\ exe.parents >= PARENT_LEVELS

\* C10: the path a call resolves is the lowest-index candidate that exists;
\* when no candidate exists the call fails with the resolution error and
\* has spawned nothing.
C10_FirstExistingWins ==
  \A c \in Callers :
    LET paths == possible_paths(exe.parents)
        found == {k \in 1..Len(paths) : paths[k] \in fs}
    IN (Resolved(c) /\ Resolvable) =>
         /\ found # {} =>
              /\ result[c] # "ErrNotFound"
              /\ \E k \in found :
                   /\ backend_path[c] = paths[k]
                   /\ \A j \in found : k <= j
         /\ found = {} =>
              /\ result[c] = "ErrNotFound"
              /\ backend_path[c] = NoPath
              /\ child[c] = NoChild

\* Two candidates exist and the lower-index one was resolved.
C10_Witness ==
  /\ fs = {P_up5, P_rel2}
  /\ exe.parents > PARENT_LEVELS
  /\ backend_path["startup"] = P_up5
  /\ result["startup"] = "Ok"

\* ------------------------------------------------------------------ C11
\* The executable's directory has fewer parent levels than the resolver
\* walks up.
Shallow == exe.ok /\ exe.parents < PARENT_LEVELS

\* C11: in a tree shallower than the resolver assumes a call does not fail
\* on the parent chain: it still tries the two relative fallbacks and
\* resolves the first of them that exists.
C11_ShallowTreeTriesFallbacks ==
  \A c \in Callers :
    (Resolved(c) /\ Shallow /\ (P_rel1 \in fs \/ P_rel2 \in fs)) =>
      /\ result[c] \notin {"ErrParent", "ErrNotFound"}
      /\ backend_path[c] = (IF P_rel1 \in fs THEN P_rel1 ELSE P_rel2)

\* ------------------------------------------------------------ JSON reading
\* A reader of the JSON texts the claims speak of: objects whose values are
\* strings or arrays of strings. A failed read has ok = FALSE.
JsonFail == [ok |-> FALSE, val |-> <<>>, next |-> 0]

\* The string whose opening quote is before position k; acc is what has
\* been decoded. A backslash must be followed by a quote, a backslash or a
\* slash (the escapes that stand for a character of the model).
RECURSIVE JsonStringFrom(_, _, _)
JsonStringFrom(b, k, acc) ==
  IF k > Len(b) THEN JsonFail
  ELSE IF b[k] = Q THEN [ok |-> TRUE, val |-> acc, next |-> k + 1]
  ELSE IF b[k] = B
    THEN IF k + 1 <= Len(b) /\ b[k + 1] \in {Q, B, "/"}
         THEN JsonStringFrom(b, k + 2, Append(acc, b[k + 1]))
         ELSE JsonFail
  ELSE JsonStringFrom(b, k + 1, Append(acc, b[k]))

JsonString(b, k) ==
  IF k <= Len(b) /\ b[k] = Q THEN JsonStringFrom(b, k + 1, <<>>) ELSE JsonFail

RECURSIVE JsonSkip(_, _)
JsonSkip(b, k) == IF k <= Len(b) /\ b[k] = " " THEN JsonSkip(b, k + 1) ELSE k

\* The elements of an array after its "[" or after a comma.
RECURSIVE JsonElements(_, _, _)
JsonElements(b, k, acc) ==
  LET s == JsonString(b, JsonSkip(b, k))
  IN IF ~s.ok THEN JsonFail
     ELSE LET n == JsonSkip(b, s.next)
          IN IF n > Len(b) THEN JsonFail
             ELSE IF b[n] = "]" THEN [ok |-> TRUE, val |-> Append(acc, s.val), next |-> n + 1]
             ELSE IF b[n] = "," THEN JsonElements(b, n + 1, Append(acc, s.val))
             ELSE JsonFail

JsonArray(b, k) ==
  IF k > Len(b) \/ b[k] # "[" THEN JsonFail
  ELSE LET n == JsonSkip(b, k + 1)
       IN IF n <= Len(b) /\ b[n] = "]" THEN [ok |-> TRUE, val |-> <<>>, next |-> n + 1]
          ELSE JsonElements(b, k + 1, <<>>)

\* A value: [str |-> TRUE, val |-> text] or [str |-> FALSE, val |-> texts].
JsonValue(b, k) ==
  LET r == IF k <= Len(b) /\ b[k] = Q THEN JsonString(b, k) ELSE JsonArray(b, k)
  IN [ok |-> r.ok, val |-> [str |-> k <= Len(b) /\ b[k] = Q, val |-> r.val], next |-> r.next]

\* The members of an object after its "{" or after a comma: pairs of a key
\* and a value.
RECURSIVE JsonMembers(_, _, _)
JsonMembers(b, k, acc) ==
  LET key == JsonString(b, JsonSkip(b, k))
  IN IF ~key.ok THEN JsonFail
     ELSE LET c == JsonSkip(b, key.next)
          IN IF c > Len(b) \/ b[c] # ":" THEN JsonFail
             ELSE LET v == JsonValue(b, JsonSkip(b, c + 1))
                  IN IF ~v.ok THEN JsonFail
                     ELSE LET n == JsonSkip(b, v.next)
                              got == Append(acc, [key |-> key.val, value |-> v.val])
                          IN IF n > Len(b) THEN JsonFail
                             ELSE IF b[n] = "}" THEN [ok |-> TRUE, val |-> got, next |-> n + 1]
                             ELSE IF b[n] = "," THEN JsonMembers(b, n + 1, got)
                             ELSE JsonFail

\* The whole text as one object.
JsonObject(b) ==
  IF b = <<>> \/ b[1] # "{" THEN JsonFail
  ELSE LET r == JsonMembers(b, 2, <<>>)
       IN IF r.ok /\ r.next = Len(b) + 1 THEN r ELSE JsonFail

\* The object has a member key.
HasKey(o, key) == \E k \in 1..Len(o.val) : o.val[k].key = key
\* The object's member key is the string text.
HasString(o, key, text) ==
  \E k \in 1..Len(o.val) :
    /\ o.val[k].key = key
    /\ o.val[k].value.str
    /\ o.val[k].value.val = text
\* The object's member key is the array of strings texts.
HasArray(o, key, texts) ==
  \E k \in 1..Len(o.val) :
    /\ o.val[k].key = key
    /\ ~o.val[k].value.str
    /\ o.val[k].value.val = texts

\* ------------------------------------------------------------------ C12
\* C12: the body of create-item and of update-status is well-formed JSON
\* whose title, description, project and status decode to the arguments,
\* for every value over an alphabet with the quote and the backslash.
C12_BodyDecodesToArguments ==
  LET o == JsonObject(gw.req.data.val)
  IN /\ gw.op = "api_create_task" =>
          /\ o.ok
          /\ HasString(o, K_title, gw.args.title)
          /\ HasString(o, K_description, gw.args.description)
          /\ gw.args.project.some => HasString(o, K_project, gw.args.project.val)
     /\ gw.op = "api_update_task_status" =>
          /\ o.ok
          /\ HasString(o, K_status, gw.args.status)

\* ------------------------------------------------------------------ C13
\* The position of the k-th comma of s; 0 before the first piece and
\* Len(s) + 1 after the last.
Commas(s) == {k \in 1..Len(s) : s[k] = ","}
Boundary(s, k) ==
  IF k = 0 THEN 0
  ELSE IF k > Cardinality(Commas(s)) THEN Len(s) + 1
  ELSE CHOOSE c \in Commas(s) : Cardinality({d \in Commas(s) : d < c}) = k - 1
\* t is piece without the spaces around it.
IsTrimOf(t, piece) ==
  \E a \in 0..Len(piece) : \E z \in a..Len(piece) :
    /\ t = SubSeq(piece, a + 1, z)
    /\ \A j \in 1..a : piece[j] = " "
    /\ \A j \in (z + 1)..Len(piece) : piece[j] = " "
    /\ t # <<>> => (t[1] # " " /\ t[Len(t)] # " ")
\* ts are the comma-separated pieces of s, each trimmed, in order.
IsTokensOf(ts, s) ==
  /\ Len(ts) = Cardinality(Commas(s)) + 1
  /\ \A k \in 1..Len(ts) :
       IsTrimOf(ts[k], SubSeq(s, Boundary(s, k - 1) + 1, Boundary(s, k) - 1))
\* Text w occurs in b at position p.
OccursAt(w, b, p) == p + Len(w) - 1 <= Len(b) /\ SubSeq(b, p, p + Len(w) - 1) = w
Occurs(w, b) == \E p \in 1..Len(b) : OccursAt(w, b, p)

CategoriesKey == <<",", " ", Q>> \o K_categories \o <<Q, ":", " ">>
ProjectKey == <<Q>> \o K_project \o <<Q>>
BuyMilkText ==
  <<"{", Q, "t", "i", "t", "l", "e", Q, ":", " ", Q, "B", "u", "y", " ", "m", "i", "l", "k", Q,
    ",", " ", Q, "d", "e", "s", "c", "r", "i", "p", "t", "i", "o", "n", Q, ":", " ", Q, "2", "%", Q,
    ",", " ", Q, "c", "a", "t", "e", "g", "o", "r", "i", "e", "s", Q, ":", " ", "[", "]", "}">>

\* C13: the body of create-item ends with the categories member, a JSON
\* array that decodes to the comma-separated pieces of the argument, each
\* trimmed, and to the empty array when the argument is absent; the project
\* member is there exactly when the argument is; the body of the call
\* "Buy milk" is the text of the specification's example.
C13_CategoriesAndProject ==
  gw.op = "api_create_task" =>
    LET b == gw.req.data.val
    IN /\ \E p \in 1..Len(b) :
            /\ OccursAt(CategoriesKey, b, p)
            /\ LET arr == JsonArray(b, p + Len(CategoriesKey))
               IN /\ arr.ok
                  /\ arr.next = Len(b)
                  /\ b[Len(b)] = "}"
                  /\ IF gw.args.categories.some
                     THEN IsTokensOf(arr.val, gw.args.categories.val)
                     ELSE arr.val = <<>>
       /\ gw.args.project.some <=> Occurs(ProjectKey, b)
       /\ gw.args = BuyMilk => b = BuyMilkText

\* The call with categories "work, urgent": the array is work, urgent.
C13_Witness ==
  /\ gw.op = "api_create_task"
  /\ gw.args = WorkUrgent
  /\ HasArray(JsonObject(gw.req.data.val), K_categories,
              << <<"w", "o", "r", "k">>, <<"u", "r", "g", "e", "n", "t">> >>)

\* ------------------------------------------------------------------ C14
\* The three strings check_backend_status returns.
ProbeMessages ==
  {"Backend is running", "Backend not responding", "Could not check backend status"}

\* C14: the probe yields Healthy exactly on a success status, and
\* Unreachable on every other status and on a connection failure.
C14_HealthyIffSuccessStatus ==
  gw.op = "check_backend_status" => (gw.res.ok <=> HttpSuccess(gw.resp))

\* C14, amended: a call of the probe is one GET of the liveness endpoint
\* with -f; it yields Healthy exactly when the backend answers with a status
\* below 400, Unreachable on a status of 400 or more, on a connection
\* failure and when curl cannot be launched; and it changes nothing of the
\* supervisor.
C14_HealthyIffBelow400 ==
  [][(gw' # gw /\ gw'.op = "check_backend_status") =>
       /\ gw'.req.method = "GET"
       /\ gw'.req.url = <<BaseUrl, "/api/tasks">>
       /\ gw'.req.fail
       /\ gw'.res.ok <=> (gw'.resp.kind = "http" /\ gw'.resp.status < 400)
       /\ gw'.res.msg \in ProbeMessages
       /\ gw'.res.ok <=> gw'.res.msg = "Backend is running"
       /\ UNCHANGED <<procVars, pc, callVars, probeVars, hostVars, envVars>>]_vars

\* The probe answered Healthy to a redirect.
C14_Witness ==
  /\ gw.op = "check_backend_status"
  /\ gw.resp.kind = "http"
  /\ gw.resp.status = 302
  /\ gw.res.ok

\* ------------------------------------------------------------------ C15
\* C15: while the host lives, the setup thread eventually ends its probe
\* loop, in Ready or in ProbeExhausted.
C15_StartupTerminates ==
  <>(hostExited \/ (pc["startup"] = "done" /\ outcome \in {"Ready", "ProbeExhausted"}))

\* The loop ran out with the host still alive and a close event handled
\* while it ran.
C15_Witness ==
  /\ pc["startup"] = "done"
  /\ outcome = "ProbeExhausted"
  /\ closes >= 1
  /\ ~hostExited

\* ------------------------------------------------------------------ C16
\* C16: while the host runs, every API command can be called in every
\* state, whatever the setup thread is doing and whoever holds the mutex;
\* a call ends with Ok or with a non-empty error string, and with a
\* non-empty error string when the backend cannot be reached.
C16_GatewayAlwaysAnswers ==
  /\ ~hostExited =>
       \A op \in ApiOps : ENABLED CommandCall(op, MainArgs(op), Refused)
  /\ gw.op \in ApiOps =>
       /\ gw.res.ok \/ gw.res.msg # "" \/ gw.res.text # <<>>
       /\ gw.resp.kind \in {"refused", "nocurl"} =>
            (~gw.res.ok /\ (gw.res.msg # "" \/ gw.res.text # <<>>))

\* A call that failed on an unreachable backend, seen while the close
\* handler holds the mutex and the setup thread waits for it.
C16_Witness ==
  /\ gw.op = "api_create_task"
  /\ gw.resp.kind = "refused"
  /\ ~gw.res.ok
  /\ gw.res.msg = "Create task failed: "
  /\ lock = "main"
  /\ pc["startup"] = "lock"

\* ------------------------------------------------------------------ C17
\* The number a text of decimal digits denotes, -1 when it is no such text.
DigitChars == {"0", "1", "2", "3", "4", "5", "6", "7", "8", "9"}
DigitValue(ch) == CHOOSE d \in 0..9 : Digit(d) = ch
RECURSIVE DecimalValue(_)
DecimalValue(ds) ==
  IF ds = <<>> \/ \E k \in 1..Len(ds) : ds[k] \notin DigitChars THEN -1
  ELSE IF Len(ds) = 1 THEN DigitValue(ds[1])
  ELSE 10 * DecimalValue(SubSeq(ds, 1, Len(ds) - 1)) + DigitValue(ds[Len(ds)])
\* Text without quote and backslash.
Plain(s) == \A k \in 1..Len(s) : s[k] \notin {Q, B}
Done7Text ==
  <<"{", Q, "s", "t", "a", "t", "u", "s", Q, ":", " ", Q, "d", "o", "n", "e", Q, "}">>

\* C17: list is GET /api/tasks with no body; create is POST /api/tasks with
\* a JSON body; update of item N is PATCH /api/tasks/N/status, N being the
\* id argument in decimal, with the body {"status": <status>}; all on the
\* fixed base URL.
C17_MethodAndPath ==
  LET r == gw.req
  IN /\ gw.op \in ApiOps => r.url[1] = BaseUrl
     /\ gw.op = "api_get_tasks" =>
          (r.method = "GET" /\ r.url = <<BaseUrl, "/api/tasks">> /\ ~r.data.some)
     /\ gw.op = "api_create_task" =>
          /\ r.method = "POST"
          /\ r.url = <<BaseUrl, "/api/tasks">>
          /\ r.data.some
          /\ r.headers = <<ContentType>>
          /\ (Plain(gw.args.title) /\ Plain(gw.args.description) /\ Plain(gw.args.project.val))
               => JsonObject(r.data.val).ok
     /\ gw.op = "api_update_task_status" =>
          /\ r.method = "PATCH"
          /\ Len(r.url) >= 4
          /\ r.url[2] = "/api/tasks/"
          /\ r.url[Len(r.url)] = "/status"
          /\ DecimalValue(SubSeq(r.url, 3, Len(r.url) - 1)) = gw.args.task_id
          /\ r.data.some
          /\ r.headers = <<ContentType>>
          /\ Plain(gw.args.status) =>
               LET o == JsonObject(r.data.val)
               IN o.ok /\ Len(o.val) = 1 /\ HasString(o, K_status, gw.args.status)
          /\ gw.args = Done7 =>
               (r.url = <<BaseUrl, "/api/tasks/", "7", "/status">> /\ r.data.val = Done7Text)

\* The update of item 305: a path with a three-digit id.
C17_Witness ==
  /\ gw.op = "api_update_task_status"
  /\ gw.args.task_id = 305
  /\ gw.req.url = <<BaseUrl, "/api/tasks/", "3", "0", "5", "/status">>
  /\ gw.req.method = "PATCH"

\* ------------------------------------------------------------------ C18
\* The positions at which a thread is between taking and releasing the
\* mutex: the store of line 174 and the take-and-kill of lines 228-231.
SlotPcs == {"store", "take"}

C19_OnlyStartAndCloseTouchHandle ==
  [][/\ (gw' # gw \/ probeLog' # probeLog \/ waits' # waits \/ outcome' # outcome) =>
          UNCHANGED <<handle, spawned, signals, lock>>
     /\ (handle' # handle /\ handle' # NoChild) =>
          \E c \in Callers : pc[c] = "store" /\ Returns(c)
     /\ (handle' # handle /\ handle' = NoChild) => Terminates
     /\ signals' # signals => Terminates]_vars

\* ProbeExhausted with the backend still running and its handle stored.
C19_Witness ==
  /\ outcome = "ProbeExhausted"
  /\ handle # NoChild
  /\ Live = {handle}
  /\ signals = <<>>

\* ------------------------------------------------------------------ C20
\* C20: a stop signal is sent only by the close handler, only to the child
\* it takes out of the slot, which has not been signalled before and is not
\* left in the slot.
C20_SignalOnlyTakenOnce ==
  [][signals' # signals =>
       /\ Terminates
       /\ handle # NoChild
       /\ ~Signalled(handle)
       /\ signals' = Append(signals, handle)
       /\ handle' = NoChild]_vars

\* Two children, each stored and then stopped by its own close event.
C20_Witness ==
  /\ signals = <<1, 2>>
  /\ handle = NoChild
  /\ closes = 2

====
